---- MODULE Spec2Model ----
(***************************************************************************)
(* The DuckDB adapter of harlequin (src/src/harlequin_duckdb/adapter.py):  *)
(* the initialization-script interpreter (_split_script,                   *)
(* _rewrite_init_command, _rewrite_dot_open and the bootstrap loop of      *)
(* connect), the type normaliser (_short_column_type) and the catalog      *)
(* builder (get_catalog).                                                  *)
(*                                                                         *)
(* A Python str is a sequence of one-character strings, so that            *)
(* startswith, strip, split, splitlines and the path conversions are       *)
(* computed character by character as Python computes them.                *)
(***************************************************************************)
EXTENDS Integers, Sequences, FiniteSets, TLC

VARIABLES
    pc,                 \* position in the operation under way
    script,             \* init_script: the text of the initialization script
    commands,           \* the list _split_script returned
    command,            \* the command handed to _rewrite_init_command
    rewritten_command,  \* what _rewrite_init_command returned
    native_type,        \* the argument of _short_column_type
    short_type,         \* what _short_column_type returned
    no_init,            \* self.no_init
    init_file,          \* the file at self.init_path: its text, or Unreadable
    idx,                \* position of the outer for loop of connect in commands
    cmds,               \* rewritten_command.split(";"), the pieces not yet visited
    submitted,          \* every statement passed to connection.execute, in order
    session,            \* the statements the engine executed (its session state)
    count,              \* count of connect
    result,             \* what the operation returned or raised
    engine,             \* the metadata the engine holds
    databases,          \* rows of _get_databases
    schemas,            \* rows of _get_schemas for the current database
    tables,             \* rows of _get_tables for the current schema
    di,                 \* position of the database loop
    si,                 \* position of the schema loop
    ti,                 \* position of the table loop
    catalog_items,      \* get_catalog's catalog_items
    schema_items,       \* get_catalog's schema_items
    table_items         \* get_catalog's table_items

scriptVars == <<script, commands>>
rewriteVars == <<command, rewritten_command>>
typeVars == <<native_type, short_type>>
connectVars == <<no_init, init_file, idx, cmds, submitted, session, count>>
catalogVars == <<engine, databases, schemas, tables, di, si, ti,
                 catalog_items, schema_items, table_items>>
vars == <<pc, result, scriptVars, rewriteVars, typeVars, connectVars, catalogVars>>

-----------------------------------------------------------------------------
(* Bounds of the model. *)

\* longest script enumerated character by character for _split_script
MaxScriptLen == 6
\* most arguments after the command name in an enumerated meta-command
MaxArgs == 3
\* most characters after the base name in an enumerated native type
MaxSuffixLen == 3
\* most lines in an enumerated initialization script of connect
MaxLines == 3
\* most databases, and most schemas, tables and columns in all, the engine holds
MaxDatabases == 2
MaxSchemas == 2
MaxTables == 2
MaxColumns == 2

-----------------------------------------------------------------------------
(* Python's str methods, on sequences of characters. *)

\* str.isspace for one character
IsSpace(c) == c \in {" ", "\t", "\n", "\r"}

\* the characters str.splitlines breaks a line at
IsLineBreak(c) == c \in {"\n", "\r"}

RECURSIVE LStrip(_)
LStrip(s) == IF s # <<>> /\ IsSpace(Head(s)) THEN LStrip(Tail(s)) ELSE s

RECURSIVE RStrip(_)
RStrip(s) ==
    IF s # <<>> /\ IsSpace(s[Len(s)]) THEN RStrip(SubSeq(s, 1, Len(s) - 1)) ELSE s

\* str.strip()
Strip(s) == RStrip(LStrip(s))

\* str.startswith(prefix)
StartsWith(s, prefix) ==
    /\ Len(s) >= Len(prefix)
    /\ SubSeq(s, 1, Len(prefix)) = prefix

\* str.endswith(suffix)
EndsWith(s, suffix) ==
    /\ Len(s) >= Len(suffix)
    /\ SubSeq(s, Len(s) - Len(suffix) + 1, Len(s)) = suffix

\* sep.join(parts)
RECURSIVE Join(_, _)
Join(parts, sep) ==
    IF parts = <<>> THEN <<>>
    ELSE IF Len(parts) = 1 THEN parts[1]
    ELSE parts[1] \o sep \o Join(Tail(parts), sep)

\* str.splitlines(): k is the next character, cur the line being read, acc the
\* lines read; "\r\n" is one line break and no empty last line is produced
RECURSIVE SplitLinesFrom(_, _, _, _)
SplitLinesFrom(s, k, cur, acc) ==
    IF k > Len(s) THEN (IF cur = <<>> THEN acc ELSE Append(acc, cur))
    ELSE IF s[k] = "\r" /\ k < Len(s) /\ s[k + 1] = "\n"
         THEN SplitLinesFrom(s, k + 2, <<>>, Append(acc, cur))
    ELSE IF IsLineBreak(s[k])
         THEN SplitLinesFrom(s, k + 1, <<>>, Append(acc, cur))
    ELSE SplitLinesFrom(s, k + 1, Append(cur, s[k]), acc)

SplitLines(s) == SplitLinesFrom(s, 1, <<>>, <<>>)

\* str.split(sep) for a one-character sep: always at least one piece
RECURSIVE SplitOnFrom(_, _, _, _, _)
SplitOnFrom(s, sep, k, cur, acc) ==
    IF k > Len(s) THEN Append(acc, cur)
    ELSE IF s[k] = sep THEN SplitOnFrom(s, sep, k + 1, <<>>, Append(acc, cur))
    ELSE SplitOnFrom(s, sep, k + 1, Append(cur, s[k]), acc)

SplitOn(s, sep) == SplitOnFrom(s, sep, 1, <<>>, <<>>)

\* str.split(): the maximal runs of characters that are not whitespace
RECURSIVE SplitWsFrom(_, _, _, _)
SplitWsFrom(s, k, cur, acc) ==
    IF k > Len(s) THEN (IF cur = <<>> THEN acc ELSE Append(acc, cur))
    ELSE IF IsSpace(s[k])
         THEN SplitWsFrom(s, k + 1, <<>>, IF cur = <<>> THEN acc ELSE Append(acc, cur))
    ELSE SplitWsFrom(s, k + 1, Append(cur, s[k]), acc)

SplitWs(s) == SplitWsFrom(s, 1, <<>>, <<>>)

\* every sequence over S of length at most n
SeqsUpTo(S, n) == UNION {[1..k -> S] : k \in 0..n}

\* the concatenation of a sequence of strings
RECURSIVE Concat(_)
Concat(parts) == IF parts = <<>> THEN <<>> ELSE Head(parts) \o Concat(Tail(parts))

-----------------------------------------------------------------------------
(* DuckDbAdapter._split_script *)

Dot == <<".">>
Newline == <<"\n">>

\* the filter and the strip of the return statement, in the code's order: an
\* entry is kept when it is not the empty string, and then stripped
StripKept(cmdlist) ==
    LET kept == SelectSeq(cmdlist, LAMBDA c : c # <<>>)
    IN  [k \in 1..Len(kept) |-> Strip(kept[k])]

\* SplitLoop with the next block starting at the meta-command line itself
\* (i = j in place of i = j + 1)
RECURSIVE SplitLoopKeepsMeta(_, _, _, _)
SplitLoopKeepsMeta(lines, j, i, acc) ==
    IF j > Len(lines) THEN Append(acc, Join(SubSeq(lines, i, Len(lines)), Newline))
    ELSE IF StartsWith(lines[j], Dot)
         THEN SplitLoopKeepsMeta(lines, j + 1, j,
                        acc \o <<Join(SubSeq(lines, i, j - 1), Newline), lines[j]>>)
    ELSE SplitLoopKeepsMeta(lines, j + 1, i, acc)

\* the for loop over enumerate(lines), at line j (counted from 1) with the
\* current block starting at line i, followed by the append after the loop
RECURSIVE SplitLoop(_, _, _, _)
SplitLoop(lines, j, i, acc) ==
    IF j > Len(lines) THEN Append(acc, Join(SubSeq(lines, i, Len(lines)), Newline))
    ELSE IF StartsWith(lines[j], Dot)
         THEN SplitLoop(lines, j + 1, j + 1,
                        acc \o <<Join(SubSeq(lines, i, j - 1), Newline), lines[j]>>)
    ELSE SplitLoop(lines, j + 1, i, acc)

SplitScript(s) == StripKept(SplitLoop(SplitLines(s), 1, 1, <<>>))

-----------------------------------------------------------------------------
(* pathlib.Path, as _rewrite_dot_open uses it (POSIX flavour). *)

Slash == <<"/">>

\* the number of '/' a string begins with
RECURSIVE LeadingSlashes(_)
LeadingSlashes(s) ==
    IF s # <<>> /\ Head(s) = "/" THEN 1 + LeadingSlashes(Tail(s)) ELSE 0

\* the root of a path: "//" is kept, any other run of leading '/' is "/"
PathRoot(s) ==
    LET n == LeadingSlashes(s)
    IN  IF n = 0 THEN <<>> ELSE IF n = 2 THEN <<"/", "/">> ELSE Slash

\* the components of a path: empty and "." components are dropped
PathParts(s) == SelectSeq(SplitOn(s, "/"), LAMBDA part : part # <<>> /\ part # Dot)

\* str(Path(s))
PathStr(s) ==
    IF PathRoot(s) = <<>> /\ PathParts(s) = <<>> THEN Dot
    ELSE PathRoot(s) \o Join(PathParts(s), Slash)

\* Path(s).name
PathName(s) == IF PathParts(s) = <<>> THEN <<>> ELSE PathParts(s)[Len(PathParts(s))]

\* name.rfind("."), counted from 1; 0 when there is none
LastDot(name) ==
    LET at == {k \in 1..Len(name) : name[k] = "."}
    IN  IF at = {} THEN 0 ELSE CHOOSE k \in at : \A m \in at : m <= k

\* Path(s).stem
PathStem(s) ==
    LET name == PathName(s)
        k == LastDot(name)
    IN  IF 1 < k /\ k < Len(name) THEN SubSeq(name, 1, k - 1) ELSE name

-----------------------------------------------------------------------------
(* DuckDbAdapter._rewrite_dot_open and _rewrite_init_command *)

DotOpen == <<".", "o", "p", "e", "n">>
ReadOnlyFlag == <<"-", "-", "r", "e", "a", "d", "o", "n", "l", "y">>
AttachMemory ==
    <<"a", "t", "t", "a", "c", "h", " ", "'", ":", "m", "e", "m", "o", "r", "y", ":",
      "'", ";", " ", "u", "s", "e", " ", "m", "e", "m", "o", "r", "y", ";">>
AttachQuote == <<"a", "t", "t", "a", "c", "h", " ", "'">>
Quote == <<"'">>
ReadOnlyOption == <<" ", "(", "R", "E", "A", "D", "_", "O", "N", "L", "Y", ")">>
As == <<" ", "a", "s", " ">>
Use == <<";", " ", "u", "s", "e", " ">>
Semicolon == <<";">>

\* the f-string of the return statement
AttachStatement(db_path, option) ==
    AttachQuote \o PathStr(db_path) \o Quote \o option \o As \o PathStem(db_path)
        \o Use \o PathStem(db_path) \o Semicolon

\* _rewrite_dot_open taking the read-only branch whenever the first argument
\* is the flag (len(args) >= 2 in place of len(args) == 2)
RewriteDotOpenAnyLength(cmd) ==
    LET args == Tail(SplitWs(cmd))
    IN  IF args = <<>> THEN AttachMemory
        ELSE IF Len(args) >= 2 /\ args[1] = ReadOnlyFlag
             THEN AttachStatement(args[2], ReadOnlyOption)
        ELSE AttachStatement(args[1], <<>>)

RewriteDotOpen(cmd) ==
    LET args == Tail(SplitWs(cmd))
    IN  IF args = <<>> THEN AttachMemory
        ELSE IF Len(args) = 2 /\ args[1] = ReadOnlyFlag
             THEN AttachStatement(args[2], ReadOnlyOption)
        ELSE AttachStatement(args[1], <<>>)

RewriteInitCommand(cmd) ==
    IF ~StartsWith(cmd, Dot) THEN cmd
    ELSE IF StartsWith(cmd, DotOpen) THEN RewriteDotOpen(cmd)
    ELSE <<>>

-----------------------------------------------------------------------------
(* DuckDbConnection: the type tables, _short_relation_type, _short_column_type *)

\* RELATION_TYPE_MAPPING, as pairs <<relation kind, short tag>>
RelationTypeMapping == {
    <<<<"B", "A", "S", "E", " ", "T", "A", "B", "L", "E">>, <<"t">>>>,
    <<<<"L", "O", "C", "A", "L", " ", "T", "E", "M", "P", "O", "R", "A", "R", "Y">>, <<"t", "m", "p">>>>,
    <<<<"V", "I", "E", "W">>, <<"v">>>>}

RelationTypeNames == {kv[1] : kv \in RelationTypeMapping}

\* RELATION_TYPE_MAPPING[name]
RelationTypeTag(name) == (CHOOSE kv \in RelationTypeMapping : kv[1] = name)[2]

\* COLUMN_TYPE_MAPPING, as pairs <<native type name, short tag>>
ColumnTypeMapping == {
    <<<<"S", "Q", "L", "N", "U", "L", "L">>,
      <<"\\", "n">>>>,
    <<<<"B", "O", "O", "L", "E", "A", "N">>,
      <<"t", "/", "f">>>>,
    <<<<"T", "I", "N", "Y", "I", "N", "T">>,
      <<"#">>>>,
    <<<<"U", "T", "I", "N", "Y", "I", "N", "T">>,
      <<"u", "#">>>>,
    <<<<"S", "M", "A", "L", "L", "I", "N", "T">>,
      <<"#">>>>,
    <<<<"U", "S", "M", "A", "L", "L", "I", "N", "T">>,
      <<"u", "#">>>>,
    <<<<"I", "N", "T", "E", "G", "E", "R">>,
      <<"#">>>>,
    <<<<"U", "I", "N", "T", "E", "G", "E", "R">>,
      <<"u", "#">>>>,
    <<<<"B", "I", "G", "I", "N", "T">>,
      <<"#", "#">>>>,
    <<<<"U", "B", "I", "G", "I", "N", "T">>,
      <<"u", "#", "#">>>>,
    <<<<"H", "U", "G", "E", "I", "N", "T">>,
      <<"#", "#", "#">>>>,
    <<<<"U", "U", "I", "D">>,
      <<"u", "i", "d">>>>,
    <<<<"F", "L", "O", "A", "T">>,
      <<"#", ".", "#">>>>,
    <<<<"D", "O", "U", "B", "L", "E">>,
      <<"#", ".", "#">>>>,
    <<<<"D", "A", "T", "E">>,
      <<"d">>>>,
    <<<<"T", "I", "M", "E", "S", "T", "A", "M", "P">>,
      <<"t", "s">>>>,
    <<<<"T", "I", "M", "E", "S", "T", "A", "M", "P", "_", "M", "S">>,
      <<"t", "s">>>>,
    <<<<"T", "I", "M", "E", "S", "T", "A", "M", "P", "_", "N", "S">>,
      <<"t", "s">>>>,
    <<<<"T", "I", "M", "E", "S", "T", "A", "M", "P", "_", "S">>,
      <<"t", "s">>>>,
    <<<<"T", "I", "M", "E">>,
      <<"t">>>>,
    <<<<"T", "I", "M", "E", "_", "T", "Z">>,
      <<"t", "t", "z">>>>,
    <<<<"T", "I", "M", "E", "S", "T", "A", "M", "P", "_", "T", "Z">>,
      <<"t", "t", "z">>>>,
    <<<<"T", "I", "M", "E", "S", "T", "A", "M", "P", " ", "W", "I", "T", "H", " ", "T", "I", "M", "E", " ", "Z", "O", "N", "E">>,
      <<"t", "t", "z">>>>,
    <<<<"V", "A", "R", "C", "H", "A", "R">>,
      <<"s">>>>,
    <<<<"B", "L", "O", "B">>,
      <<"0", "b">>>>,
    <<<<"B", "I", "T">>,
      <<"0", "1", "0">>>>,
    <<<<"I", "N", "T", "E", "R", "V", "A", "L">>,
      <<"|", "-", "|">>>>,
    <<<<"D", "E", "C", "I", "M", "A", "L">>,
      <<"#", ".", "#">>>>,
    <<<<"R", "E", "A", "L">>,
      <<"#", ".", "#">>>>,
    <<<<"S", "T", "R", "U", "C", "T">>,
      <<"{", "}">>>>,
    <<<<"M", "A", "P">>,
      <<"{", "m", "}">>>>}

ColumnTypeNames == {kv[1] : kv \in ColumnTypeMapping}

\* COLUMN_TYPE_MAPPING[name]
ColumnTypeTag(name) == (CHOOSE kv \in ColumnTypeMapping : kv[1] = name)[2]

UnknownType == <<"?">>

ShortRelationType(kind) ==
    IF kind \in RelationTypeNames THEN RelationTypeTag(kind) ELSE UnknownType

\* _short_column_type splitting on '(' alone, without the split on '['
ShortColumnTypeParenOnly(t) ==
    LET base_type == SplitOn(t, "(")[1]
        short_base_type == IF base_type \in ColumnTypeNames
                           THEN ColumnTypeTag(base_type) ELSE UnknownType
    IN  IF EndsWith(t, <<"[", "]">>) THEN <<"[">> \o short_base_type \o <<"]">>
        ELSE short_base_type

\* str(native_type) is the argument itself for the str the catalog passes
ShortColumnType(t) ==
    LET base_type == SplitOn(SplitOn(t, "(")[1], "[")[1]
        short_base_type == IF base_type \in ColumnTypeNames
                           THEN ColumnTypeTag(base_type) ELSE UnknownType
    IN  IF EndsWith(t, <<"[", "]">>) THEN <<"[">> \o short_base_type \o <<"]">>
        ELSE short_base_type

-----------------------------------------------------------------------------
(* The engine's metadata and the four metadata queries. *)

\* the characters of the names below, in the order the engine sorts them
CharOrder ==
    <<"\"", ".", "_", "a", "b", "c", "d", "e", "f", "h", "i", "m", "n", "o", "r",
      "s", "t", "u">>

CharRank(c) == CHOOSE k \in 1..Len(CharOrder) : CharOrder[k] = c

\* a <= b in the order of "order by 1"
RECURSIVE NameLeq(_, _)
NameLeq(a, b) ==
    IF a = <<>> THEN TRUE
    ELSE IF b = <<>> THEN FALSE
    ELSE IF Head(a) = Head(b) THEN NameLeq(Tail(a), Tail(b))
    ELSE CharRank(Head(a)) < CharRank(Head(b))

\* the rows of a result set, ordered by their first column
RECURSIVE OrderBy1(_)
OrderBy1(rows) ==
    IF rows = {} THEN <<>>
    ELSE LET first == CHOOSE r \in rows : \A q \in rows : NameLeq(r[1], q[1])
         IN  <<first>> \o OrderBy1(rows \ {first})

PgCatalog == <<"p", "g", "_", "c", "a", "t", "a", "l", "o", "g">>
InformationSchema == <<"i", "n", "f", "o", "r", "m", "a", "t", "i", "o", "n", "_", "s", "c", "h", "e", "m", "a">>

\* pragma show_databases
GetDatabases == [k \in 1..Len(engine.databases) |-> <<engine.databases[k]>>]

\* information_schema.schemata, without the system schemas
GetSchemas(database) ==
    OrderBy1({<<r[2]>> : r \in {x \in engine.schemata :
        x[1] = database /\ x[2] \notin {PgCatalog, InformationSchema}}})

\* information_schema.tables
GetTables(database, schema) ==
    OrderBy1({<<r[3], r[4]>> : r \in {x \in engine.tables :
        x[1] = database /\ x[2] = schema}})

\* information_schema.columns
GetColumns(database, schema, table) ==
    OrderBy1({<<r[4], r[5]>> : r \in {x \in engine.columns :
        x[1] = database /\ x[2] = schema /\ x[3] = table}})

-----------------------------------------------------------------------------
(* DuckDbConnection.get_catalog *)

DoubleQuote == <<"\"">>

\* f'"{name}"'
Quoted(name) == DoubleQuote \o name \o DoubleQuote

\* f'{parent}."{name}"'
Nested(parent, name) == parent \o Dot \o Quoted(name)

\* the children of a CatalogItem constructed without children
NoChildren == <<>>

\* CatalogItem(...)
CatalogItem(qualified_identifier, query_name, label, type_label, children) ==
    [qualified_identifier |-> qualified_identifier, query_name |-> query_name,
     label |-> label, type_label |-> type_label, children |-> children]

DatabaseIdentifier(database) == Quoted(database)
SchemaIdentifier(database, schema) == Nested(DatabaseIdentifier(database), schema)
TableIdentifier(database, schema, table) ==
    Nested(SchemaIdentifier(database, schema), table)

\* the list comprehension over columns, taken from the last row to the first
ColumnItemsReversed(table_identifier, columns) ==
    [k \in 1..Len(columns) |->
        CatalogItem(Nested(table_identifier, columns[Len(columns) + 1 - k][1]),
                    Quoted(columns[Len(columns) + 1 - k][1]),
                    columns[Len(columns) + 1 - k][1],
                    ShortColumnType(columns[Len(columns) + 1 - k][2]), NoChildren)]

\* the list comprehension over columns
ColumnItems(table_identifier, columns) ==
    [k \in 1..Len(columns) |->
        CatalogItem(Nested(table_identifier, columns[k][1]), Quoted(columns[k][1]),
                    columns[k][1], ShortColumnType(columns[k][2]), NoChildren)]

DbLabel == <<"d", "b">>
SchLabel == <<"s", "c", "h">>

-----------------------------------------------------------------------------
(* Idle values of the variables an operation does not use. *)

NoEngine == [databases |-> <<>>, schemata |-> {}, tables |-> {}, columns |-> {}]

ScriptIdle == script = <<>> /\ commands = <<>>
RewriteIdle == command = <<>> /\ rewritten_command = <<>>
TypeIdle == native_type = <<>> /\ short_type = <<>>
ConnectIdle ==
    /\ no_init = FALSE /\ init_file = <<>> /\ idx = 0 /\ cmds = <<>>
    /\ submitted = <<>> /\ session = <<>> /\ count = 0
CatalogIdle ==
    /\ engine = NoEngine /\ databases = <<>> /\ schemas = <<>> /\ tables = <<>>
    /\ di = 0 /\ si = 0 /\ ti = 0
    /\ catalog_items = <<>> /\ schema_items = <<>> /\ table_items = <<>>

-----------------------------------------------------------------------------
(* _split_script applied to every script of a bounded set. *)

ScriptChars == {".", "a", " ", "\n", "\r"}

ExampleScript ==
    <<"s", "e", "l", "e", "c", "t", " ", "1", ";", "\n",
      ".", "o", "p", "e", "n", " ", "f", "o", "o", ".", "d", "b", "\n",
      "s", "e", "l", "e", "c", "t", " ", "2", ";">>

SplitInputs == SeqsUpTo(ScriptChars, MaxScriptLen) \cup {ExampleScript}

SplitInit ==
    /\ pc = "split"
    /\ script \in SplitInputs
    /\ commands = <<>>
    /\ result = "none"
    /\ RewriteIdle /\ TypeIdle /\ ConnectIdle /\ CatalogIdle

Split ==
    /\ pc = "split"
    /\ commands' = SplitScript(script)
    /\ pc' = "split_done"
    /\ UNCHANGED <<script, result, rewriteVars, typeVars, connectVars, catalogVars>>

SplitNext == Split

SpecSplit == SplitInit /\ [][SplitNext]_vars

-----------------------------------------------------------------------------
(* Claims about _split_script. *)

\* the positions of the lines whose first character is '.'
MetaLines(lines) == {j \in 1..Len(lines) : lines[j] # <<>> /\ lines[j][1] = "."}

\* the m-th smallest element of a set of positions
Nth(S, m) == CHOOSE j \in S : Cardinality({x \in S : x <= j}) = m

\* block 1, meta line 1, ..., block n, meta line n, final block: each block the
\* lines strictly between two consecutive meta lines joined by "\n"
Entries(lines) ==
    LET D == MetaLines(lines)
        n == Cardinality(D)
        at(m) == IF m = 0 THEN 0 ELSE IF m > n THEN Len(lines) + 1 ELSE Nth(D, m)
    IN  [k \in 1..(2 * n + 1) |->
            IF k % 2 = 1
            THEN Join(SubSeq(lines, at((k - 1) \div 2) + 1, at((k + 1) \div 2) - 1), Newline)
            ELSE lines[at(k \div 2)]]

ExampleCommands ==
    << <<"s", "e", "l", "e", "c", "t", " ", "1", ";">>,
       <<".", "o", "p", "e", "n", " ", "f", "o", "o", ".", "d", "b">>,
       <<"s", "e", "l", "e", "c", "t", " ", "2", ";">> >>

\* C2 as stated: every block and every meta line is a command, in order, and a
\* script with no meta line yields exactly one command, the script trimmed
C2_EveryBlockIsACommand ==
    pc = "split_done" =>
        LET lines == SplitLines(script)
            all == Entries(lines)
        IN  /\ commands = [k \in 1..Len(all) |-> Strip(all[k])]
            /\ MetaLines(lines) = {} => commands = <<Strip(script)>>

\* C2, amended: split returns, in order, the trimmed blocks and meta lines of
\* the script, leaving out those that are the empty string before trimming;
\* the lines are those of splitlines, joined again by "\n", so that a script
\* with no meta line yields at most one command; the example of the claim holds
C2_SplitInOrder ==
    pc = "split_done" =>
        LET lines == SplitLines(script)
            all == Entries(lines)
            kept == SelectSeq(all, LAMBDA e : Len(e) > 0)
        IN  /\ commands = [k \in 1..Len(kept) |-> Strip(kept[k])]
            /\ MetaLines(lines) = {} =>
                    commands = IF Join(lines, Newline) = <<>> THEN <<>>
                               ELSE <<Strip(Join(lines, Newline))>>
            /\ script = ExampleScript => commands = ExampleCommands

\* a script with SQL before and after a meta line was split into three commands
C2_Witness ==
    /\ pc = "split_done"
    /\ Cardinality(MetaLines(SplitLines(script))) = 1
    /\ Len(commands) = 3
    /\ script # ExampleScript

\* C3: every command split returns is trimmed and non-empty, and a script of
\* whitespace alone yields no command
C3_TrimmedNonEmpty ==
    pc = "split_done" =>
        /\ \A k \in 1..Len(commands) :
                commands[k] # <<>> /\ Strip(commands[k]) = commands[k]
        /\ Strip(script) = <<>> => commands = <<>>

\* C4: every command split returns that begins with '.' is one meta line of
\* the script (up to the trimming of C3) and holds no line break
C4_MetaCommandIsOneLine ==
    pc = "split_done" =>
        \A k \in 1..Len(commands) :
            StartsWith(commands[k], Dot) =>
                /\ \A n \in 1..Len(commands[k]) : ~IsLineBreak(commands[k][n])
                /\ \E j \in MetaLines(SplitLines(script)) :
                        commands[k] = Strip(SplitLines(script)[j])

-----------------------------------------------------------------------------
(* _rewrite_init_command applied to every command of a bounded set. *)

CommandNames ==
    {DotOpen, DotOpen \o <<"e", "r">>, <<".", "h", "e", "l", "p">>, <<"a", ";">>}

ArgMenu ==
    {ReadOnlyFlag, <<"a">>, <<"b", ".", "d", "b">>, <<".", "/", "a">>,
     <<"d", "/", "/", "e", ".", "f", ".", "g">>, Slash}

Separators == {<<" ">>, <<"\t", " ">>}

ExampleOpenReadOnly ==
    DotOpen \o <<" ">> \o ReadOnlyFlag
        \o <<" ", "m", "y", "d", "a", "t", "a", ".", "d", "b">>

RewriteInputs ==
    {name \o Concat([k \in 1..Len(args) |-> sep \o args[k]]) :
        name \in CommandNames, args \in SeqsUpTo(ArgMenu, MaxArgs), sep \in Separators}
    \cup {ExampleOpenReadOnly}

RewriteInit ==
    /\ pc = "rewrite"
    /\ command \in RewriteInputs
    /\ rewritten_command = <<>>
    /\ result = "none"
    /\ ScriptIdle /\ TypeIdle /\ ConnectIdle /\ CatalogIdle

Rewrite ==
    /\ pc = "rewrite"
    /\ rewritten_command' = RewriteInitCommand(command)
    /\ result' = "returned"
    /\ pc' = "rewrite_done"
    /\ UNCHANGED <<command, scriptVars, typeVars, connectVars, catalogVars>>

RewriteNext == Rewrite

SpecRewrite == RewriteInit /\ [][RewriteNext]_vars

-----------------------------------------------------------------------------
(* Claims about _rewrite_init_command. *)

\* sub occurs in s
Contains(s, sub) ==
    \E k \in 1..(Len(s) - Len(sub) + 1) : SubSeq(s, k, k + Len(sub) - 1) = sub

\* the command name: the first whitespace-delimited token
CommandName(cmd) == SplitWs(cmd)[1]

\* C5: rewrite never fails, and a meta-command whose name is anything other
\* than .open (also a name that extends it) is rewritten to the empty string
C5_OtherMetaCommandIsNoOp ==
    pc = "rewrite_done" =>
        /\ result = "returned"
        /\ (StartsWith(command, Dot) /\ CommandName(command) # DotOpen)
                => rewritten_command = <<>>

\* the rewrite of C6 with the path written as `shown`
OpenRewriteOf(cmd, shown(_)) ==
    LET args == Tail(SplitWs(cmd))
    IN  CASE Len(args) = 0 -> AttachMemory
          [] Len(args) = 2 /\ args[1] = ReadOnlyFlag ->
                AttachQuote \o shown(args[2]) \o Quote \o ReadOnlyOption \o As
                    \o PathStem(args[2]) \o Use \o PathStem(args[2]) \o Semicolon
          [] OTHER ->
                AttachQuote \o shown(args[1]) \o Quote \o As
                    \o PathStem(args[1]) \o Use \o PathStem(args[1]) \o Semicolon

IsOpenCommand(cmd) == StartsWith(cmd, Dot) /\ CommandName(cmd) = DotOpen

\* C6 as stated: the attach statement quotes the argument itself
C6_AttachesArgumentVerbatim ==
    (pc = "rewrite_done" /\ IsOpenCommand(command)) =>
        rewritten_command = OpenRewriteOf(command, LAMBDA a : a)

\* C6, amended: as stated, except that the attach statement quotes the chosen
\* argument as the path type prints it (empty and "." components and repeated
\* or trailing '/' removed), which is the argument itself only for a path
\* already in that form; READ_ONLY appears exactly when there are two
\* arguments and the first is --readonly
C6_OpenRewrite ==
    (pc = "rewrite_done" /\ IsOpenCommand(command)) =>
        /\ rewritten_command = OpenRewriteOf(command, PathStr)
        /\ Contains(rewritten_command, ReadOnlyOption)
            <=> (Len(SplitWs(command)) = 3 /\ SplitWs(command)[2] = ReadOnlyFlag)
        /\ command = ExampleOpenReadOnly =>
                rewritten_command =
                    AttachQuote \o <<"m", "y", "d", "a", "t", "a", ".", "d", "b">>
                        \o Quote \o ReadOnlyOption \o As \o <<"m", "y", "d", "a", "t", "a">>
                        \o Use \o <<"m", "y", "d", "a", "t", "a">> \o Semicolon

\* a .open command with --readonly and two further arguments was rewritten
C6_Witness ==
    /\ pc = "rewrite_done"
    /\ IsOpenCommand(command)
    /\ Len(SplitWs(command)) = 4
    /\ SplitWs(command)[2] = ReadOnlyFlag
    /\ rewritten_command = AttachStatement(ReadOnlyFlag, <<>>)

-----------------------------------------------------------------------------
(* _short_column_type applied to every native type of a bounded set. *)

Integer == <<"I", "N", "T", "E", "G", "E", "R">>
Varchar == <<"V", "A", "R", "C", "H", "A", "R">>
TimestampTz == <<"T", "I", "M", "E", "S", "T", "A", "M", "P", " ", "W", "I", "T", "H", " ", "T", "I", "M", "E", " ", "Z", "O", "N", "E">>
Frobnicate == <<"F", "R", "O", "B", "N", "I", "C", "A", "T", "E">>
Struct == <<"S", "T", "R", "U", "C", "T">>

BaseNames == {Integer, Varchar, TimestampTz, Frobnicate, Struct, <<>>}

SuffixChars == {"(", ")", "[", "]", "3"}

ExampleVarchar255 == Varchar \o <<"(", "2", "5", "5", ")">>

TypeInputs ==
    {base \o suffix : base \in BaseNames, suffix \in SeqsUpTo(SuffixChars, MaxSuffixLen)}
    \cup {ExampleVarchar255}

TypeInit ==
    /\ pc = "normalize"
    /\ native_type \in TypeInputs
    /\ short_type = <<>>
    /\ result = "none"
    /\ ScriptIdle /\ RewriteIdle /\ ConnectIdle /\ CatalogIdle

Normalize ==
    /\ pc = "normalize"
    /\ short_type' = ShortColumnType(native_type)
    /\ result' = "returned"
    /\ pc' = "normalize_done"
    /\ UNCHANGED <<native_type, scriptVars, rewriteVars, connectVars, catalogVars>>

TypeNext == Normalize

SpecType == TypeInit /\ [][TypeNext]_vars

-----------------------------------------------------------------------------
(* Claims about _short_column_type. *)

\* the base name: the text before the first '(' or '['
BaseName(t) ==
    LET cut == {k \in 1..Len(t) : t[k] \in {"(", "["}}
    IN  IF cut = {} THEN t
        ELSE SubSeq(t, 1, (CHOOSE k \in cut : \A m \in cut : k <= m) - 1)

\* C8 as stated: normalize never fails and returns '?' exactly when the base
\* name is absent from the table
C8_UnknownIffAbsent ==
    pc = "normalize_done" =>
        /\ result = "returned"
        /\ short_type = UnknownType <=> BaseName(native_type) \notin ColumnTypeNames

\* C8, amended: normalize never fails, and the base name is absent from the
\* table exactly when normalize returns the unknown marker: '?' itself, or
\* '[?]' when the native type ends with '[]'
C8_UnknownMarkerIffAbsent ==
    pc = "normalize_done" =>
        /\ result = "returned"
        /\ BaseName(native_type) \notin ColumnTypeNames
            <=> short_type = (IF EndsWith(native_type, <<"[", "]">>)
                              THEN <<"[", "?", "]">> ELSE UnknownType)
        /\ native_type = Varchar \o <<"[", "]">> => short_type = <<"[", "s", "]">>
        /\ native_type = ExampleVarchar255 => short_type = <<"s">>
        /\ native_type = Frobnicate => short_type = UnknownType

\* an array of an unmapped type was normalized to the wrapped marker
C8_Witness ==
    /\ pc = "normalize_done"
    /\ native_type = Frobnicate \o <<"[", "]">>
    /\ short_type = <<"[", "?", "]">>

-----------------------------------------------------------------------------
(* DuckDbAdapter.connect: the execution of the initialization script. *)

\* the file at init_path cannot be opened (open raises OSError); no text, as
\* every element of a text is one character
Unreadable == <<"OSError">>

Lines ==
    {<<"a", ";">>, <<"a", ";", "b">>, <<" ">>, DotOpen \o <<" ", "x">>,
     <<".", "h">>, <<" ", ".", "h">>, <<"b">>}

\* the texts the file may hold: at most MaxLines lines joined by "\n"
InitScripts == {Join(ls, Newline) : ls \in SeqsUpTo(Lines, MaxLines)}

\* _read_init_script
ReadInitScript(file) == IF file = Unreadable THEN <<>> ELSE file

ConnectInit ==
    /\ pc = "connect"
    /\ no_init \in BOOLEAN
    /\ init_file \in InitScripts \cup {Unreadable}
    /\ script = <<>> /\ commands = <<>>
    /\ command = <<>> /\ rewritten_command = <<>>
    /\ idx = 0 /\ cmds = <<>> /\ count = 0
    /\ submitted = <<>> /\ session = <<>>
    /\ result = "none"
    /\ TypeIdle /\ CatalogIdle

\* no_init is set: the script is not read and the connection is returned
SkipInit ==
    /\ pc = "connect"
    /\ no_init
    /\ result' = "DuckDbConnection"
    /\ pc' = "connect_done"
    /\ UNCHANGED <<scriptVars, rewriteVars, typeVars, connectVars, catalogVars>>

\* init_script is read and split; the outer for loop starts
ReadAndSplit ==
    /\ pc = "connect"
    /\ ~no_init
    /\ script' = ReadInitScript(init_file)
    /\ commands' = SplitScript(script')
    /\ idx' = 1
    /\ count' = 0
    /\ pc' = "for_command"
    /\ UNCHANGED <<result, rewriteVars, typeVars, no_init, init_file, cmds,
                   submitted, session, catalogVars>>

\* the outer loop takes the next command, rewrites it and splits it on ';'
NextCommand ==
    /\ pc = "for_command"
    /\ idx <= Len(commands)
    /\ command' = commands[idx]
    /\ rewritten_command' = RewriteInitCommand(command')
    /\ cmds' = SplitOn(rewritten_command', ";")
    /\ pc' = "for_cmd"
    /\ UNCHANGED <<result, scriptVars, typeVars, no_init, init_file, idx,
                   submitted, session, count, catalogVars>>

\* cmd.strip() is empty: the piece is passed over
SkipBlank ==
    /\ pc = "for_cmd"
    /\ cmds # <<>>
    /\ Strip(Head(cmds)) = <<>>
    /\ cmds' = Tail(cmds)
    /\ UNCHANGED <<pc, result, scriptVars, rewriteVars, typeVars, no_init, init_file,
                   idx, submitted, session, count, catalogVars>>

\* connection.execute(cmd) succeeds
ExecuteOk ==
    /\ pc = "for_cmd"
    /\ cmds # <<>>
    /\ Strip(Head(cmds)) # <<>>
    /\ submitted' = Append(submitted, Head(cmds))
    /\ session' = Append(session, Head(cmds))
    /\ count' = count + 1
    /\ cmds' = Tail(cmds)
    /\ UNCHANGED <<pc, result, scriptVars, rewriteVars, typeVars, no_init, init_file,
                   idx, catalogVars>>

\* ExecuteFails with the error swallowed inside the loop, which goes on
ExecuteFailsAndGoesOn ==
    /\ pc = "for_cmd"
    /\ cmds # <<>>
    /\ Strip(Head(cmds)) # <<>>
    /\ submitted' = Append(submitted, Head(cmds))
    /\ cmds' = Tail(cmds)
    /\ UNCHANGED <<pc, result, scriptVars, rewriteVars, typeVars, no_init, init_file,
                   idx, session, count, catalogVars>>

\* connection.execute(cmd) raises duckdb.Error: connect raises
\* HarlequinConnectionError from the except clause
ExecuteFails ==
    /\ pc = "for_cmd"
    /\ cmds # <<>>
    /\ Strip(Head(cmds)) # <<>>
    /\ submitted' = Append(submitted, Head(cmds))
    /\ result' = "HarlequinConnectionError"
    /\ pc' = "connect_done"
    /\ UNCHANGED <<scriptVars, rewriteVars, typeVars, no_init, init_file, idx, cmds,
                   session, count, catalogVars>>

\* the inner loop is over: back to the outer loop
EndOfCommand ==
    /\ pc = "for_cmd"
    /\ cmds = <<>>
    /\ idx' = idx + 1
    /\ pc' = "for_command"
    /\ UNCHANGED <<result, scriptVars, rewriteVars, typeVars, no_init, init_file, cmds,
                   submitted, session, count, catalogVars>>

\* the outer loop is over: connect returns the connection
ReturnConnection ==
    /\ pc = "for_command"
    /\ idx > Len(commands)
    /\ result' = "DuckDbConnection"
    /\ pc' = "connect_done"
    /\ UNCHANGED <<scriptVars, rewriteVars, typeVars, connectVars, catalogVars>>

Init == ConnectInit

Next ==
    \/ SkipInit
    \/ ReadAndSplit
    \/ NextCommand
    \/ SkipBlank
    \/ ExecuteOk
    \/ ExecuteFails
    \/ EndOfCommand
    \/ ReturnConnection

Spec == Init /\ [][Next]_vars

-----------------------------------------------------------------------------
(* Claims about connect. *)

\* the pieces of a rewritten command that are not blank
Statements(cmd) ==
    SelectSeq(SplitOn(RewriteInitCommand(cmd), ";"), LAMBDA piece : Strip(piece) # <<>>)

\* the list L of C1: the statements of every command of split(s), in order
StatementList(s) ==
    LET cs == SplitScript(s)
    IN  Concat([k \in 1..Len(cs) |-> Statements(cs[k])])

IsPrefix(p, q) == Len(p) <= Len(q) /\ SubSeq(q, 1, Len(p)) = p

\* C1, in every state of connect with an initialization script
C1_State ==
    ~no_init =>
        LET L == StatementList(ReadInitScript(init_file))
        IN  /\ IsPrefix(submitted, L)
            /\ pc = "connect_done" => result \in {"DuckDbConnection", "HarlequinConnectionError"}
            /\ result = "DuckDbConnection" => submitted = L /\ session = L
            /\ result = "HarlequinConnectionError" =>
                    /\ submitted # <<>>
                    /\ session = SubSeq(submitted, 1, Len(submitted) - 1)
            /\ result = "none" => session = submitted \/ pc = "connect"

\* C1: what connect submits is a prefix of L, in order; all of L when no
\* statement fails, and then a connection is returned; when the k-th fails,
\* statements 1..k and no more, the first k-1 left executed, and connect
\* raises the connection error; nothing is submitted once connect has ended
C1_SubmitsPrefixInOrder ==
    /\ []C1_State
    /\ [][pc = "connect_done" => UNCHANGED <<submitted, session, result>>]_vars
    /\ [][IsPrefix(submitted, submitted') /\ IsPrefix(session, session')]_vars

\* the second statement of a longer script failed
C1_Witness ==
    /\ ~no_init
    /\ result = "HarlequinConnectionError"
    /\ Len(submitted) = 2
    /\ Len(session) = 1
    /\ Len(StatementList(script)) > 2

\* C7: for a script with no line starting with '.', every statement
\* succeeding, what connect submits is the non-blank pieces of the script
\* split on ';', in order, up to surrounding whitespace
C7_SqlOnlyRoundTrip ==
    (/\ result = "DuckDbConnection"
     /\ ~no_init
     /\ MetaLines(SplitLines(script)) = {}) =>
        LET pieces == SelectSeq(SplitOn(script, ";"), LAMBDA piece : Strip(piece) # <<>>)
        IN  [k \in 1..Len(submitted) |-> Strip(submitted[k])]
                = [k \in 1..Len(pieces) |-> Strip(pieces[k])]

-----------------------------------------------------------------------------
(* get_catalog run against every engine of a bounded set. *)

\* a database name holding '"' and '.': a"."s
QuoteDotName == <<"a", "\"", ".", "\"", "s">>

DbNames == {<<"a">>, QuoteDotName}
SchemaNames == {<<"m", "a", "i", "n">>, <<"s">>}
TableNames == {<<"t">>, <<"u">>}
ColumnNames == {<<"c">>, <<"d">>}

BaseTable == <<"B", "A", "S", "E", " ", "T", "A", "B", "L", "E">>
LocalTemporary == <<"L", "O", "C", "A", "L", " ", "T", "E", "M", "P", "O", "R", "A", "R", "Y">>
View == <<"V", "I", "E", "W">>
ForeignTable == <<"F", "O", "R", "E", "I", "G", "N", " ", "T", "A", "B", "L", "E">>

\* the kind of each table and the data type of each column, by name
KindChoices ==
    {[n \in TableNames |-> IF n = <<"t">> THEN BaseTable ELSE View],
     [n \in TableNames |-> IF n = <<"t">> THEN ForeignTable ELSE LocalTemporary]}
TypeChoices ==
    {[n \in ColumnNames |-> IF n = <<"c">> THEN Integer ELSE Varchar \o <<"[", "]">>],
     [n \in ColumnNames |-> IF n = <<"c">> THEN Frobnicate \o <<"[", "]">>
                                           ELSE Struct \o <<"(", "3", ")">>]}

AtMost(S, n) == {X \in SUBSET S : Cardinality(X) <= n}

\* the engine holding databases q, schemas X, tables Y, columns Z
EngineOf(q, X, Y, Z, kinds, types) ==
    [databases |-> q,
     schemata |-> X \cup {<<q[k], InformationSchema>> : k \in 1..Len(q)},
     tables |-> {<<y[1][1], y[1][2], y[2], kinds[y[2]]>> : y \in Y},
     columns |-> {<<z[1][1][1], z[1][1][2], z[1][2], z[2], types[z[2]]>> : z \in Z}]

CatalogInit ==
    /\ pc = "get_databases"
    /\ \E q \in {x \in SeqsUpTo(DbNames, MaxDatabases) :
                    \A i, j \in 1..Len(x) : i # j => x[i] # x[j]} :
       \E X \in AtMost({q[k] : k \in 1..Len(q)} \X SchemaNames, MaxSchemas) :
       \E Y \in AtMost(X \X TableNames, MaxTables) :
       \E Z \in AtMost(Y \X ColumnNames, MaxColumns) :
       \E kinds \in KindChoices, types \in TypeChoices :
            engine = EngineOf(q, X, Y, Z, kinds, types)
    /\ databases = <<>> /\ schemas = <<>> /\ tables = <<>>
    /\ di = 0 /\ si = 0 /\ ti = 0
    /\ catalog_items = <<>> /\ schema_items = <<>> /\ table_items = <<>>
    /\ result = "none"
    /\ ScriptIdle /\ RewriteIdle /\ TypeIdle /\ ConnectIdle

database == databases[di][1]
schema == schemas[si][1]

\* databases = self._get_databases()
QueryDatabases ==
    /\ pc = "get_databases"
    /\ databases' = GetDatabases
    /\ catalog_items' = <<>>
    /\ di' = 1
    /\ pc' = "for_database"
    /\ UNCHANGED <<result, engine, schemas, tables, si, ti, schema_items, table_items,
                   scriptVars, rewriteVars, typeVars, connectVars>>

\* the database loop takes the next database: schemas = self._get_schemas(database)
QuerySchemas ==
    /\ pc = "for_database"
    /\ di <= Len(databases)
    /\ schemas' = GetSchemas(database)
    /\ schema_items' = <<>>
    /\ si' = 1
    /\ pc' = "for_schema"
    /\ UNCHANGED <<result, engine, databases, tables, di, ti, catalog_items, table_items,
                   scriptVars, rewriteVars, typeVars, connectVars>>

\* the schema loop takes the next schema: tables = self._get_tables(database, schema)
QueryTables ==
    /\ pc = "for_schema"
    /\ si <= Len(schemas)
    /\ tables' = GetTables(database, schema)
    /\ table_items' = <<>>
    /\ ti' = 1
    /\ pc' = "for_table"
    /\ UNCHANGED <<result, engine, databases, schemas, di, si, catalog_items,
                   schema_items, scriptVars, rewriteVars, typeVars, connectVars>>

\* the table loop takes the next table: its columns are queried and the table
\* item, with its column items, is appended
QueryColumns ==
    /\ pc = "for_table"
    /\ ti <= Len(tables)
    /\ LET table == tables[ti][1]
           kind == tables[ti][2]
           table_identifier == TableIdentifier(database, schema, table)
           columns == GetColumns(database, schema, table)
       IN  table_items' = Append(table_items,
                CatalogItem(table_identifier, table_identifier, table,
                            ShortRelationType(kind),
                            ColumnItems(table_identifier, columns)))
    /\ ti' = ti + 1
    /\ UNCHANGED <<pc, result, engine, databases, schemas, tables, di, si,
                   catalog_items, schema_items,
                   scriptVars, rewriteVars, typeVars, connectVars>>

\* the table loop is over: the schema item is appended
AppendSchema ==
    /\ pc = "for_table"
    /\ ti > Len(tables)
    /\ schema_items' = Append(schema_items,
            CatalogItem(SchemaIdentifier(database, schema),
                        SchemaIdentifier(database, schema), schema, SchLabel, table_items))
    /\ si' = si + 1
    /\ pc' = "for_schema"
    /\ UNCHANGED <<result, engine, databases, schemas, tables, di, ti, catalog_items,
                   table_items, scriptVars, rewriteVars, typeVars, connectVars>>

\* the schema loop is over: the database item is appended
AppendDatabase ==
    /\ pc = "for_schema"
    /\ si > Len(schemas)
    /\ catalog_items' = Append(catalog_items,
            CatalogItem(DatabaseIdentifier(database), DatabaseIdentifier(database),
                        database, DbLabel, schema_items))
    /\ di' = di + 1
    /\ pc' = "for_database"
    /\ UNCHANGED <<result, engine, databases, schemas, tables, si, ti, schema_items,
                   table_items, scriptVars, rewriteVars, typeVars, connectVars>>

\* the database loop is over: return Catalog(items=catalog_items)
ReturnCatalog ==
    /\ pc = "for_database"
    /\ di > Len(databases)
    /\ result' = "Catalog"
    /\ pc' = "catalog_done"
    /\ UNCHANGED <<catalogVars, scriptVars, rewriteVars, typeVars, connectVars>>

\* a metadata query is due
QueryDue ==
    \/ pc = "get_databases"
    \/ pc = "for_database" /\ di <= Len(databases)
    \/ pc = "for_schema" /\ si <= Len(schemas)
    \/ pc = "for_table" /\ ti <= Len(tables)

\* cur.execute(...) raises duckdb.Error: no try statement encloses the queries
\* of get_catalog, so the error leaves get_catalog as it is
QueryFails ==
    /\ QueryDue
    /\ result' = "duckdb.Error"
    /\ pc' = "catalog_done"
    /\ UNCHANGED <<catalogVars, scriptVars, rewriteVars, typeVars, connectVars>>

CatalogNext ==
    \/ QueryDatabases
    \/ QuerySchemas
    \/ QueryTables
    \/ QueryColumns
    \/ AppendSchema
    \/ AppendDatabase
    \/ ReturnCatalog
    \/ QueryFails

SpecCatalog == CatalogInit /\ [][CatalogNext]_vars

-----------------------------------------------------------------------------
(* Claims about get_catalog. *)

\* C9: a build in which a metadata query failed returns no catalog and ends
\* with the connection-level error
C9_FailureIsConnectionError ==
    (pc = "catalog_done" /\ result # "Catalog") => result = "HarlequinConnectionError"

\* the tag of a relation kind, as C10 lists them
KindTag(kind) ==
    CASE kind = BaseTable -> <<"t">>
      [] kind = LocalTemporary -> <<"t", "m", "p">>
      [] kind = View -> <<"v">>
      [] OTHER -> <<"?">>

\* a node without its identifiers
Shape(label, type_label, children) ==
    [label |-> label, type_label |-> type_label, children |-> children]

\* the label, type_label and children of every node of a catalog
ShapeOf(items) ==
    [d \in 1..Len(items) |-> Shape(items[d].label, items[d].type_label,
        [s \in 1..Len(items[d].children) |->
            LET sch == items[d].children[s]
            IN  Shape(sch.label, sch.type_label,
                    [t \in 1..Len(sch.children) |->
                        LET tab == sch.children[t]
                        IN  Shape(tab.label, tab.type_label,
                                [c \in 1..Len(tab.children) |->
                                    Shape(tab.children[c].label,
                                          tab.children[c].type_label,
                                          tab.children[c].children)])])])]

\* one node per row of each metadata query, in the order of the rows
ExpectedShape ==
    LET dbs == GetDatabases
    IN  [d \in 1..Len(dbs) |->
            LET schs == GetSchemas(dbs[d][1])
            IN  Shape(dbs[d][1], DbLabel,
                    [s \in 1..Len(schs) |->
                        LET tabs == GetTables(dbs[d][1], schs[s][1])
                        IN  Shape(schs[s][1], SchLabel,
                                [t \in 1..Len(tabs) |->
                                    LET cols == GetColumns(dbs[d][1], schs[s][1], tabs[t][1])
                                    IN  Shape(tabs[t][1], KindTag(tabs[t][2]),
                                            [c \in 1..Len(cols) |->
                                                Shape(cols[c][1],
                                                      ShortColumnType(cols[c][2]),
                                                      <<>>)])])])]

\* one database, one schema, one table with an INTEGER and a VARCHAR[] column
ExampleEngine ==
    [databases |-> <<(<<"a">>)>>,
     schemata |-> {<< <<"a">>, <<"m", "a", "i", "n">> >>, << <<"a">>, InformationSchema >>},
     tables |-> {<< <<"a">>, <<"m", "a", "i", "n">>, <<"t">>, BaseTable >>},
     columns |-> {<< <<"a">>, <<"m", "a", "i", "n">>, <<"t">>, <<"c">>, Integer >>,
                  << <<"a">>, <<"m", "a", "i", "n">>, <<"t">>, <<"d">>,
                     Varchar \o <<"[", "]">> >>}]

ExampleShape ==
    << Shape(<<"a">>, <<"d", "b">>,
        << Shape(<<"m", "a", "i", "n">>, <<"s", "c", "h">>,
            << Shape(<<"t">>, <<"t">>,
                << Shape(<<"c">>, <<"#">>, <<>>),
                   Shape(<<"d">>, <<"[", "s", "]">>, <<>>) >>) >>) >>) >>

\* C10: the catalog build returns has one node per row each metadata query
\* returned, siblings in the order of the rows, tagged 'db', 'sch', the tag of
\* the relation kind and the normalized column type, column nodes without
\* children; the example of the claim yields 't' with '#' and '[s]'
C10_TreeMatchesRows ==
    result = "Catalog" =>
        /\ ShapeOf(catalog_items) = ExpectedShape
        /\ engine = ExampleEngine => ShapeOf(catalog_items) = ExampleShape

\* a catalog of two databases was returned, the second database listed holding
\* a table with two columns
C10_Witness ==
    /\ result = "Catalog"
    /\ Len(catalog_items) = 2
    /\ \E s \in 1..Len(catalog_items[2].children) :
         \E t \in 1..Len(catalog_items[2].children[s].children) :
            Len(catalog_items[2].children[s].children[t].children) = 2

\* every node of a catalog: its path of names from the database down, its
\* identifiers, its own name and the qualified_identifier of its parent (the
\* empty string for a database)
NodesOf(items) ==
    LET node(path, item, parent) ==
            [path |-> path, label |-> item.label,
             qualified_identifier |-> item.qualified_identifier,
             query_name |-> item.query_name, parent |-> parent]
    IN  UNION {
            LET db == items[d]
            IN  {node(<<db.label>>, db, <<>>)} \cup UNION {
                    LET sch == db.children[s]
                    IN  {node(<<db.label, sch.label>>, sch, db.qualified_identifier)}
                        \cup UNION {
                            LET tab == sch.children[t]
                            IN  {node(<<db.label, sch.label, tab.label>>, tab,
                                      sch.qualified_identifier)}
                                \cup {node(<<db.label, sch.label, tab.label,
                                             tab.children[c].label>>,
                                           tab.children[c], tab.qualified_identifier) :
                                        c \in 1..Len(tab.children)}
                            : t \in 1..Len(sch.children)}
                    : s \in 1..Len(db.children)}
            : d \in 1..Len(items)}

\* the identifier is the parent's identifier, a '.', and the name in double
\* quotes; for a database, the name in double quotes
IsNestedQuoted(n) ==
    n.qualified_identifier =
        (IF Len(n.path) = 1 THEN <<>> ELSE n.parent \o <<".">>)
            \o <<"\"">> \o n.label \o <<"\"">>

\* C11: in a returned catalog, two nodes with different name paths never have
\* the same qualified_identifier, and every node's identifiers are the
\* parent's identifier nested with the node's own name in double quotes (the
\* query_name of a column being its quoted name alone)
C11_IdentifierReidentifies ==
    result = "Catalog" =>
        LET nodes == NodesOf(catalog_items)
        IN  /\ \A m, n \in nodes :
                    m.path # n.path => m.qualified_identifier # n.qualified_identifier
            /\ \A n \in nodes :
                    /\ IsNestedQuoted(n)
                    /\ n.query_name = IF Len(n.path) = 4
                                      THEN <<"\"">> \o n.label \o <<"\"">>
                                      ELSE n.qualified_identifier

====
